---- MODULE Spec2Model ----
(***************************************************************************)
(* AluVM bytecode cursor (src/src/encoding/cursor.rs) and machine          *)
(* registers (src/src/lib.rs) as a state machine.                          *)
(*                                                                         *)
(* A cursor is the record [byte_pos, bit_pos, eof] over the byte buffer    *)
(* `bytecode`.  Every cursor method is an operator that takes the cursor   *)
(* and the buffer and returns [c, buf, res]: the cursor and the buffer it  *)
(* leaves behind and what it returns.  res.kind is "Ok", "Eof",            *)
(* "OutOfBoundaries" (the two CursorError variants) or "Abort" (a panic:   *)
(* a failed assertion, an index outside the buffer, an arithmetic          *)
(* overflow in a build with overflow checks).                              *)
(***************************************************************************)
EXTENDS Integers, Sequences, FiniteSets, TLC

VARIABLES
    bytecode,   \* Cursor::bytecode, the byte buffer the cursor borrows
    byte_pos,   \* Cursor::byte_pos
    bit_pos,    \* Cursor::bit_pos
    eof,        \* Cursor::eof
    mode,       \* "r": Cursor<&[u8]> (impl Read), "w": Cursor<&mut [u8]> (impl Write)
    last,       \* the last method called on the cursor, its argument and its result
    wrote,      \* the write under test: the method, its data, where it started (and
                \* the byte it found there) and where it ended
    done,       \* the write under test has been made: the writer is finished
    reg         \* Registers: default()'s progress, the flags of a value, execute

vars == <<bytecode, byte_pos, bit_pos, eof, mode, last, wrote, done, reg>>

----------------------------------------------------------------------------
(* Program constants *)

\* u16::MAX
U16MAX == 65535

\* the buffer length that makes every u16 offset addressable
FullLen == U16MAX + 1

(* Bounds of the model *)

\* length of the short buffer
ShortLen == 3

\* the methods are called at the byte offsets 0..Near, at U16MAX - Far..U16MAX
\* and at the two offsets where a 32-byte block ends at the last byte or just
\* before it
Near == 3
Far == 5

\* stack frames available to Registers::default()
MaxStack == 3

----------------------------------------------------------------------------
(* u8 arithmetic, bit by bit *)

Pow2(n) == 2 ^ n

RECURSIVE BitAnd(_, _)
BitAnd(a, b) ==
    IF a = 0 \/ b = 0 THEN 0
    ELSE (a % 2) * (b % 2) + 2 * BitAnd(a \div 2, b \div 2)

RECURSIVE BitOr(_, _)
BitOr(a, b) ==
    IF a = 0 THEN b
    ELSE IF b = 0 THEN a
    ELSE (IF a % 2 = 1 \/ b % 2 = 1 THEN 1 ELSE 0) + 2 * BitOr(a \div 2, b \div 2)

\* u8 << n for n < 8: the bits shifted past bit 7 are lost
ShlU8(x, n) == (x * Pow2(n)) % 256

\* u8 >> n
ShrU8(x, n) == x \div Pow2(n)

\* the loop of Cursor::extract: bit_count ones
RECURSIVE MaskOnes(_)
MaskOnes(cnt) == IF cnt = 0 THEN 0 ELSE BitOr(ShlU8(MaskOnes(cnt - 1), 1), 1)

\* the other byte order, most significant byte first: what to_le_bytes is
\* told apart from
U16ToBe(d) == <<d \div 256, d % 256>>

\* u16::to_le_bytes
U16ToLe(d) == <<d % 256, d \div 256>>

\* u16::from_le_bytes
U16FromLe(b) == b[1] + 256 * b[2]

\* i16::to_le_bytes: the two's complement of d, least significant byte first
I16ToLe(d) == U16ToLe(IF d < 0 THEN d + 65536 ELSE d)

\* i16::from_le_bytes
I16FromLe(b) == IF U16FromLe(b) >= 32768 THEN U16FromLe(b) - 65536 ELSE U16FromLe(b)

----------------------------------------------------------------------------
(* The byte buffer: its length and its non-zero bytes *)

Buffer(len, mem) == [len |-> len, mem |-> mem]

Get(buf, i) == IF i \in DOMAIN buf.mem THEN buf.mem[i] ELSE 0

Put(buf, i, v) ==
    [buf EXCEPT !.mem =
        IF v = 0 THEN [j \in (DOMAIN @) \ {i} |-> @[j]]
        ELSE [j \in (DOMAIN @) \cup {i} |-> IF j = i THEN v ELSE @[j]]]

\* bytecode[from..from + Len(bytes)].copy_from_slice(bytes)
CopyFromSlice(buf, from, bytes) ==
    LET idx == {from + k - 1 : k \in 1..Len(bytes)}
        nz  == {i \in idx : bytes[i - from + 1] # 0}
    IN  [buf EXCEPT !.mem =
            [j \in ((DOMAIN @) \ idx) \cup nz |->
                IF j \in idx THEN bytes[j - from + 1] ELSE @[j]]]

\* &bytecode[from..from + n]
Slice(buf, from, n) == [k \in 1..n |-> Get(buf, from + k - 1)]

----------------------------------------------------------------------------
(* Results *)

Ok(v) == [kind |-> "Ok", val |-> v]
Eof == [kind |-> "Eof", val |-> 0]
OutOfBoundaries(n) == [kind |-> "OutOfBoundaries", val |-> n]
Abort(why) == [kind |-> "Abort", val |-> why]

Ret(c, buf, res) == [c |-> c, buf |-> buf, res |-> res]

\* Result::map: the value of an Ok result replaced by v
MapOk(res, v) == IF res.kind = "Ok" THEN Ok(v) ELSE res

----------------------------------------------------------------------------
(* impl Cursor *)

Cursor(bp, bt, e) == [byte_pos |-> bp, bit_pos |-> bt, eof |-> e]

\* Cursor::with
with == Cursor(0, 0, FALSE)

\* a seek that clears the end-of-buffer flag and the bit offset, as a fresh
\* cursor at the offset would have them: what seek is told apart from
seek_resetting(c, to) == Cursor(to, 0, FALSE)

\* Cursor::seek
seek(c, to) == [c EXCEPT !.byte_pos = to]

\* an advance that treats every overflow as the end of the buffer: what the
\* two branches of _inc_bytes_inner are told apart from
inc_bytes_inner_saturating(c, byte_count) ==
    IF c.byte_pos + byte_count > U16MAX
    THEN [c |-> [c EXCEPT !.eof = TRUE], res |-> Ok(0)]
    ELSE [c |-> [c EXCEPT !.byte_pos = @ + byte_count], res |-> Ok(0)]

\* Cursor::_inc_bytes_inner: [c, res]
inc_bytes_inner(c, byte_count) ==
    IF byte_count = 1 /\ c.byte_pos = U16MAX
    THEN [c |-> [c EXCEPT !.eof = TRUE], res |-> Ok(0)]
    ELSE IF c.byte_pos + byte_count > U16MAX
         THEN [c |-> c, res |-> OutOfBoundaries(c.byte_pos + byte_count)]
         ELSE [c |-> [c EXCEPT !.byte_pos = @ + byte_count], res |-> Ok(0)]

\* inc_bits that drops the carry into the byte offset: what the carry of
\* inc_bits is told apart from
inc_bits_no_carry(c, bit_count) ==
    IF c.eof THEN [c |-> c, res |-> Eof]
    ELSE LET pos == c.bit_pos + bit_count
         IN  inc_bytes_inner([c EXCEPT !.bit_pos = pos % 8], 0)

\* Cursor::inc_bits: [c, res]
inc_bits(c, bit_count) ==
    IF c.eof THEN [c |-> c, res |-> Eof]
    ELSE LET pos == c.bit_pos + bit_count
         IN  inc_bytes_inner([c EXCEPT !.bit_pos = pos % 8], pos \div 8)

\* inc_bytes without its assertion: what the alignment check is told apart
\* from
inc_bytes_unchecked(c, byte_count) ==
    IF c.eof THEN [c |-> c, res |-> Eof]
    ELSE inc_bytes_inner(c, byte_count)

\* Cursor::inc_bytes: [c, res]
inc_bytes(c, byte_count) ==
    IF c.bit_pos # 0 THEN [c |-> c, res |-> Abort("misaligned")]
    ELSE IF c.eof THEN [c |-> c, res |-> Eof]
    ELSE inc_bytes_inner(c, byte_count)

\* extract with the fields packed from the most significant bit down: what
\* the bit order of extract is told apart from
extract_msb_first(c, buf, bit_count) ==
    IF c.eof THEN Ret(c, buf, Eof)
    ELSE IF c.byte_pos >= buf.len THEN Ret(c, buf, Abort("index"))
    ELSE LET byte == Get(buf, c.byte_pos)
             mask == ShrU8(ShlU8(MaskOnes(bit_count), 8 - bit_count), c.bit_pos)
             val  == ShrU8(ShlU8(BitAnd(byte, mask), c.bit_pos), 8 - bit_count)
             inc  == inc_bits(c, bit_count)
         IN  Ret(inc.c, buf, MapOk(inc.res, val))

\* Cursor::extract
extract(c, buf, bit_count) ==
    IF c.eof THEN Ret(c, buf, Eof)
    ELSE IF c.byte_pos >= buf.len THEN Ret(c, buf, Abort("index"))
    ELSE LET byte == Get(buf, c.byte_pos)
             mask == ShlU8(MaskOnes(bit_count), c.bit_pos)
             val  == ShrU8(BitAnd(byte, mask), c.bit_pos)
             inc  == inc_bits(c, bit_count)
         IN  Ret(inc.c, buf, MapOk(inc.res, val))

\* u16 addition: an overflow panics in a build with overflow checks and
\* wraps in one without
AddU16(a, b, overflow_checks) ==
    IF a + b > U16MAX
    THEN IF overflow_checks THEN Abort("overflow") ELSE Ok((a + b) % (U16MAX + 1))
    ELSE Ok(a + b)

----------------------------------------------------------------------------
(* Number and RegisterSet (crate::reg) *)

\* the registers the value methods are called with
RegSet == {"A8", "A16", "A32"}

\* RegisterSet::bits
bits(r) == CASE r = "A8" -> 8 [] r = "A16" -> 16 [] r = "A32" -> 32

Number(bytes, signed) == [bytes |-> bytes, signed |-> signed]

\* Number::len: the value's byte length
NumLen(value) == Len(value.bytes)

\* Number::from_slice
from_slice(bytes) == Number(bytes, FALSE)

\* Number::reshape to a layout of n bytes that keeps the value's sign:
\* truncation to the n least significant bytes, or extension
reshape(value, n) ==
    LET l    == NumLen(value)
        fill == IF value.signed /\ l > 0 /\ value.bytes[l] >= 128 THEN 255 ELSE 0
    IN  Number([k \in 1..n |-> IF k <= l THEN value.bytes[k] ELSE fill], value.signed)

----------------------------------------------------------------------------
(* impl Read for Cursor<&[u8]> *)

\* Read::is_end
is_end(c, buf) == Ret(c, buf, Ok(c.byte_pos >= buf.len))

\* Read::peek_u8
peek_u8(c, buf) ==
    IF c.eof THEN Ret(c, buf, Eof)
    ELSE IF c.byte_pos >= buf.len THEN Ret(c, buf, Abort("index"))
    ELSE Ret(c, buf, Ok(Get(buf, c.byte_pos)))

\* Read::read_bool
read_bool(c, buf) ==
    IF c.eof THEN Ret(c, buf, Eof)
    ELSE LET e == extract(c, buf, 1)
         IN  Ret(e.c, buf, MapOk(e.res, e.res.val = 1))

\* Read::read_u1 .. read_u7: extract, then the conversion of the u8 to uN,
\* which panics ("bit extractor failure") on a value of more than n bits
read_uN(c, buf, n) ==
    LET e == extract(c, buf, n)
    IN  IF e.res.kind = "Ok" /\ e.res.val >= Pow2(n)
        THEN Ret(e.c, buf, Abort("expect"))
        ELSE e

\* Read::read_u8
read_u8(c, buf) ==
    IF c.eof THEN Ret(c, buf, Eof)
    ELSE IF c.byte_pos >= buf.len THEN Ret(c, buf, Abort("index"))
    ELSE LET byte == Get(buf, c.byte_pos)
             inc  == inc_bytes(c, 1)
         IN  Ret(inc.c, buf, MapOk(inc.res, byte))

\* Read::read_u16
read_u16(c, buf) ==
    IF c.eof THEN Ret(c, buf, Eof)
    ELSE IF c.byte_pos + 2 > buf.len THEN Ret(c, buf, Abort("index"))
    ELSE LET word == U16FromLe(Slice(buf, c.byte_pos, 2))
             inc  == inc_bytes(c, 2)
         IN  Ret(inc.c, buf, MapOk(inc.res, word))

\* Read::read_i16
read_i16(c, buf) ==
    IF c.eof THEN Ret(c, buf, Eof)
    ELSE IF c.byte_pos + 2 > buf.len THEN Ret(c, buf, Abort("index"))
    ELSE LET word == I16FromLe(Slice(buf, c.byte_pos, 2))
             inc  == inc_bytes(c, 2)
         IN  Ret(inc.c, buf, MapOk(inc.res, word))

\* Read::read_bytes32
read_bytes32(c, buf) ==
    IF c.eof THEN Ret(c, buf, Eof)
    ELSE IF c.byte_pos + 32 > buf.len THEN Ret(c, buf, Abort("index"))
    ELSE LET inc == inc_bytes(c, 32)
         IN  Ret(inc.c, buf, MapOk(inc.res, Slice(buf, c.byte_pos, 32)))

\* Read::read_slice
read_slice(c, buf, overflow_checks) ==
    IF c.eof THEN Ret(c, buf, Eof)
    ELSE LET r == read_u16(c, buf)
         IN  IF r.res.kind # "Ok" THEN r
             ELSE LET len == r.res.val
                      pos == r.c.byte_pos
                      sum == AddU16(2, len, overflow_checks)
                  IN  IF sum.kind # "Ok" THEN Ret(r.c, buf, sum)
                      ELSE LET inc == inc_bytes(r.c, sum.val)
                           IN  IF inc.res.kind # "Ok" THEN Ret(inc.c, buf, inc.res)
                               ELSE IF pos + len > buf.len
                                    THEN Ret(inc.c, buf, Abort("index"))
                                    ELSE Ret(inc.c, buf, Ok(Slice(buf, pos, len)))

\* Read::read_value
read_value(c, buf, r) ==
    IF c.eof THEN Ret(c, buf, Eof)
    ELSE LET len == bits(r) \div 8
         IN  IF c.byte_pos + len > buf.len THEN Ret(c, buf, Abort("index"))
             ELSE LET value == from_slice(Slice(buf, c.byte_pos, len))
                      inc   == inc_bytes(c, len)
                  IN  Ret(inc.c, buf, MapOk(inc.res, value))

----------------------------------------------------------------------------
(* impl Write for Cursor<&mut [u8]> *)

\* a bit-field write that carries the bits beyond bit 7 into the next byte:
\* what the single-byte write of write_u1 .. write_u7 is told apart from
write_uN_across(c, buf, n, data) ==
    IF c.byte_pos >= buf.len THEN Ret(c, buf, Abort("index"))
    ELSE LET wide == data * Pow2(c.bit_pos)
             buf1 == Put(buf, c.byte_pos, BitOr(Get(buf, c.byte_pos), wide % 256))
             buf2 == IF wide >= 256 /\ c.byte_pos + 1 < buf.len
                     THEN Put(buf1, c.byte_pos + 1,
                              BitOr(Get(buf1, c.byte_pos + 1), wide \div 256))
                     ELSE buf1
             inc  == inc_bits(c, n)
         IN  Ret(inc.c, buf2, inc.res)

\* Write::write_bool, write_u1 .. write_u7: data of n bits
write_uN(c, buf, n, data) ==
    IF c.byte_pos >= buf.len THEN Ret(c, buf, Abort("index"))
    ELSE LET shifted == ShlU8(data, c.bit_pos)
             buf1    == Put(buf, c.byte_pos, BitOr(Get(buf, c.byte_pos), shifted))
             inc     == inc_bits(c, n)
         IN  Ret(inc.c, buf1, inc.res)

\* Write::write_bool
write_bool(c, buf, data) == write_uN(c, buf, 1, IF data THEN 1 ELSE 0)

\* Write::write_u8
write_u8(c, buf, data) ==
    IF c.byte_pos >= buf.len THEN Ret(c, buf, Abort("index"))
    ELSE LET inc == inc_bytes(c, 1)
         IN  Ret(inc.c, Put(buf, c.byte_pos, data), inc.res)

\* the body write_u16 and write_i16 share: the two bytes, one index at a time
write_le2(c, buf, data) ==
    IF c.byte_pos >= buf.len THEN Ret(c, buf, Abort("index"))
    ELSE LET buf1 == Put(buf, c.byte_pos, data[1])
         IN  IF c.byte_pos + 1 >= buf.len THEN Ret(c, buf1, Abort("index"))
             ELSE LET inc == inc_bytes(c, 2)
                  IN  Ret(inc.c, Put(buf1, c.byte_pos + 1, data[2]), inc.res)

\* Write::write_u16
write_u16(c, buf, data) == write_le2(c, buf, U16ToLe(data))

\* Write::write_i16
write_i16(c, buf, data) == write_le2(c, buf, I16ToLe(data))

\* Write::write_bytes32
write_bytes32(c, buf, data) ==
    IF c.byte_pos + 32 > buf.len THEN Ret(c, buf, Abort("index"))
    ELSE LET inc == inc_bytes(c, 32)
         IN  Ret(inc.c, CopyFromSlice(buf, c.byte_pos, data), inc.res)

\* write_slice with the length check off by one (len > u16::MAX): what the
\* check of write_slice is told apart from
write_slice_lax(c, buf, bytes, overflow_checks) ==
    LET len == Len(bytes)
    IN  IF len > U16MAX THEN Ret(c, buf, OutOfBoundaries(len))
        ELSE LET w == write_u16(c, buf, len)
             IN  IF w.res.kind # "Ok" THEN w
                 ELSE IF w.c.byte_pos + len > buf.len THEN Ret(w.c, w.buf, Abort("index"))
                 ELSE LET buf1 == CopyFromSlice(w.buf, w.c.byte_pos, bytes)
                          sum  == AddU16(2, len, overflow_checks)
                      IN  IF sum.kind # "Ok" THEN Ret(w.c, buf1, sum)
                          ELSE LET inc == inc_bytes(w.c, sum.val)
                               IN  Ret(inc.c, buf1, inc.res)

\* Write::write_slice
write_slice(c, buf, bytes, overflow_checks) ==
    LET len == Len(bytes)
    IN  IF len >= U16MAX THEN Ret(c, buf, OutOfBoundaries(len))
        ELSE LET w == write_u16(c, buf, len)
             IN  IF w.res.kind # "Ok" THEN w
                 ELSE IF w.c.byte_pos + len > buf.len THEN Ret(w.c, w.buf, Abort("index"))
                 ELSE LET buf1 == CopyFromSlice(w.buf, w.c.byte_pos, bytes)
                          sum  == AddU16(2, len, overflow_checks)
                      IN  IF sum.kind # "Ok" THEN Ret(w.c, buf1, sum)
                          ELSE LET inc == inc_bytes(w.c, sum.val)
                               IN  Ret(inc.c, buf1, inc.res)

\* Write::write_value
write_value(c, buf, r, value) ==
    LET len == bits(r) \div 8
    IN  IF ~(len <= NumLen(value)) THEN Ret(c, buf, Abort("assert"))
        ELSE LET shaped == reshape(value, len)
             IN  IF c.byte_pos + NumLen(shaped) > buf.len THEN Ret(c, buf, Abort("index"))
                 ELSE LET inc == inc_bytes(c, len)
                      IN  Ret(inc.c, CopyFromSlice(buf, c.byte_pos, shaped.bytes), inc.res)

----------------------------------------------------------------------------
(* The state machine *)

Cur == Cursor(byte_pos, bit_pos, eof)

\* a panic ends the process
Live == last.res.kind # "Abort"

NoWrite == [op |-> "none", arg |-> 0, byte_pos |-> 0, bit_pos |-> 0, eof |-> FALSE,
            old |-> 0, res |-> Ok(0), end_byte |-> 0, end_bit |-> 0]

\* Registers::default() not called yet
RegIdle == [pc |-> "idle", depth |-> 0, st0 |-> FALSE, cy0 |-> 0]

\* the buffers a cursor is created over
InitBuffers ==
    { Buffer(FullLen, <<>>),
      Buffer(ShortLen, <<>>),
      Buffer(FullLen, (0 :> 2) @@ (2 :> 7) @@ (3 :> 9) @@ (U16MAX - 1 :> 255) @@ (U16MAX :> 255)) }

\* Cursor::with(bytecode) over a buffer, borrowed shared or mutably
Init ==
    /\ bytecode \in InitBuffers
    /\ mode \in {"r", "w"}
    /\ byte_pos = with.byte_pos
    /\ bit_pos = with.bit_pos
    /\ eof = with.eof
    /\ last = [op |-> "with", arg |-> 0, res |-> Ok(0)]
    /\ wrote = NoWrite
    /\ done = FALSE
    /\ reg = RegIdle

\* the cursor and the buffer after a method that returned r
Step(op, arg, r) ==
    /\ Live
    /\ byte_pos' = r.c.byte_pos
    /\ bit_pos' = r.c.bit_pos
    /\ eof' = r.c.eof
    /\ bytecode' = r.buf
    /\ last' = [op |-> op, arg |-> arg, res |-> r.res]
    /\ UNCHANGED <<mode, reg>>

ReadStep(op, arg, r) ==
    /\ mode = "r"
    /\ Step(op, arg, r)
    /\ UNCHANGED <<wrote, done>>

\* a write method; `test` marks the write under test, which is recorded in
\* `wrote` and is the writer's last
WriteStep(op, arg, r, test) ==
    /\ mode = "w"
    /\ ~done
    /\ Step(op, arg, r)
    /\ done' = test
    /\ wrote' = IF test
                THEN [op |-> op, arg |-> arg, byte_pos |-> byte_pos, bit_pos |-> bit_pos,
                      eof |-> eof, old |-> Get(bytecode, byte_pos), res |-> r.res,
                      end_byte |-> r.c.byte_pos, end_bit |-> r.c.bit_pos]
                ELSE wrote

\* Cursor::with over the buffer the writer has finished, borrowed shared: the
\* reader
Reopen ==
    /\ Live
    /\ mode = "w"
    /\ done
    /\ mode' = "r"
    /\ byte_pos' = with.byte_pos
    /\ bit_pos' = with.bit_pos
    /\ eof' = with.eof
    /\ last' = [op |-> "with", arg |-> 0, res |-> Ok(0)]
    /\ UNCHANGED <<bytecode, wrote, done, reg>>

Seek(to) ==
    /\ mode = "w" => ~done
    /\ Step("seek", to, Ret(seek(Cur, to), bytecode, Ok(0)))
    /\ UNCHANGED <<wrote, done>>

IsEnd == ReadStep("is_end", 0, is_end(Cur, bytecode))
PeekU8 == ReadStep("peek_u8", 0, peek_u8(Cur, bytecode))
ReadBool == ReadStep("read_bool", 0, read_bool(Cur, bytecode))
ReadUN(n) == ReadStep("read_uN", n, read_uN(Cur, bytecode, n))
ReadU8 == ReadStep("read_u8", 0, read_u8(Cur, bytecode))
ReadU16 == ReadStep("read_u16", 0, read_u16(Cur, bytecode))
ReadI16 == ReadStep("read_i16", 0, read_i16(Cur, bytecode))
ReadBytes32 == ReadStep("read_bytes32", 0, read_bytes32(Cur, bytecode))
ReadSlice(oc) == ReadStep("read_slice", 0, read_slice(Cur, bytecode, oc))
ReadValue(r) == ReadStep("read_value", r, read_value(Cur, bytecode, r))

WriteBool(d, test) == WriteStep("write_bool", d, write_bool(Cur, bytecode, d), test)
WriteUN(n, d, test) == WriteStep("write_uN", <<n, d>>, write_uN(Cur, bytecode, n, d), test)
WriteU8(d) == WriteStep("write_u8", d, write_u8(Cur, bytecode, d), TRUE)
WriteU16(d) == WriteStep("write_u16", d, write_u16(Cur, bytecode, d), TRUE)
WriteI16(d) == WriteStep("write_i16", d, write_i16(Cur, bytecode, d), TRUE)
WriteBytes32(d) == WriteStep("write_bytes32", d, write_bytes32(Cur, bytecode, d), TRUE)
\* (the bytes of a slice write_slice refuses are not kept in `last`)
WriteSlice(d, oc) ==
    WriteStep("write_slice",
              [len |-> Len(d), data |-> IF Len(d) >= U16MAX THEN <<>> ELSE d],
              write_slice(Cur, bytecode, d, oc), TRUE)
WriteValue(r, v) ==
    WriteStep("write_value", <<r, v>>, write_value(Cur, bytecode, r, v), TRUE)

\* Registers::default(): the struct's base expression ..Default::default() is
\* evaluated first and is the same call again; no frame ever gets a value to
\* return
DefaultCall ==
    /\ reg.pc \in {"idle", "default"}
    /\ reg.depth < MaxStack
    /\ reg' = [reg EXCEPT !.pc = "default", !.depth = @ + 1]
    /\ UNCHANGED <<bytecode, byte_pos, bit_pos, eof, mode, last, wrote, done>>

\* the frame the stack has no room for
StackOverflow ==
    /\ reg.pc = "default"
    /\ reg.depth = MaxStack
    /\ reg' = [reg EXCEPT !.pc = "overflow"]
    /\ UNCHANGED <<bytecode, byte_pos, bit_pos, eof, mode, last, wrote, done>>

\* a Registers value written out field by field, st0 and cy0 as given: what
\* execute is called on
RegistersLiteral(st0, cy0) ==
    /\ reg.pc = "idle"
    /\ reg' = [reg EXCEPT !.pc = "built", !.st0 = st0, !.cy0 = cy0]
    /\ UNCHANGED <<bytecode, byte_pos, bit_pos, eof, mode, last, wrote, done>>

\* Registers::execute(&mut self, code) on the buffer as the code: the body is
\* empty, the call returns with the registers and the code as they were
Execute ==
    /\ reg.pc = "built"
    /\ mode = "r"
    /\ reg' = [reg EXCEPT !.pc = "executed"]
    /\ UNCHANGED <<bytecode, byte_pos, bit_pos, eof, mode, last, wrote, done>>

----------------------------------------------------------------------------
(* The instruction set *)

\* the tags with Ed25519 given the tag of Secp256k1: what the tags of enum
\* Instruction are told apart from
InstructionSharedTag ==
    [ControlFlow |-> 0, Register |-> 8, Cmp |-> 16, Arithmetic |-> 32,
     Bitwise |-> 40, Digest |-> 64, Secp256k1 |-> 72, Ed25519 |-> 72]

\* enum Instruction: the categories' tags
Instruction ==
    [ControlFlow |-> 0, Register |-> 8, Cmp |-> 16, Arithmetic |-> 32,
     Bitwise |-> 40, Digest |-> 64, Secp256k1 |-> 72, Ed25519 |-> 76]

\* enum ControlFlowOp: the sub-opcodes that are given a value
ControlFlowOp == [Fail |-> 0, Succ |-> 1, Jmp |-> 2, Jif |-> 3]

\* enum CmpOp: the sub-opcodes that are given a value
CmpOp == [Cmpa |-> 6, Cmpr |-> 7, Eqa |-> 4, Eqr |-> 5]

\* the opcode byte of a sub-opcode of a category: tag | sub-opcode
Opcode(cat, sub) == BitOr(Instruction[cat], sub)

\* the categories
Categories == DOMAIN Instruction

\* the opcode byte of a sub-opcode of a category is formed
Encode(cat, sub) ==
    /\ Live
    /\ last' = [op |-> "opcode", arg |-> <<cat, sub>>, res |-> Ok(Opcode(cat, sub))]
    /\ UNCHANGED <<bytecode, byte_pos, bit_pos, eof, mode, wrote, done, reg>>

----------------------------------------------------------------------------
(* Inputs *)

\* the byte offsets the methods are called at
Window == (0..Near) \cup {U16MAX - 32, U16MAX - 31} \cup ((U16MAX - Far)..U16MAX)

Widths == 1..7

BitData(n) == {0, 1, Pow2(n) - 1}

U8Data == {0, 165}

U16Data == {0, 258, U16MAX}

I16Data == {-2, 258, -32768}

Block32 == [k \in 1..32 |-> k]

SmallSlices == {<<>>, <<7, 9>>}

\* the flags and counters of the registers execute is called on
St0Data == BOOLEAN

Cy0Data == {0, 1, U16MAX}

\* the longest slice write_slice's length check accepts
LongSlices == {[k \in 1..U16MAX - 1 |-> 0]}

\* what write_slice refuses
HugeSlices == {[k \in 1..U16MAX |-> 0], [k \in 1..U16MAX + 1 |-> 0]}

Numbers == {Number(<<5>>, FALSE), Number(<<1, 2>>, FALSE), Number(<<1, 2, 3, 128>>, TRUE)}

\* the cursor is at one of the offsets W
At(W) == byte_pos \in W

\* every method, at every cursor state a cursor over an input buffer gets to
\* inside the window.  A writer moves its bit offset with bit fields of
\* zeros, which leave the buffer as it is, and makes one write under test.
Next ==
    \/ \E to \in Window : Seek(to)
    \/ At(Window) /\ IsEnd
    \/ At(Window) /\ PeekU8
    \/ At(Window) /\ ReadBool
    \/ At(Window) /\ \E n \in Widths : ReadUN(n)
    \/ At(Window) /\ ReadU8
    \/ At(Window) /\ ReadU16
    \/ At(Window) /\ ReadI16
    \/ At(Window) /\ ReadBytes32
    \/ At(Window) /\ \E oc \in BOOLEAN : ReadSlice(oc)
    \/ At(Window) /\ \E r \in RegSet : ReadValue(r)
    \/ At(Window) /\ \E n \in Widths : WriteUN(n, 0, FALSE)
    \/ At(Window) /\ \E d \in BOOLEAN : WriteBool(d, TRUE)
    \/ At(Window) /\ \E n \in Widths : \E d \in BitData(n) : WriteUN(n, d, TRUE)
    \/ At(Window) /\ \E d \in U8Data : WriteU8(d)
    \/ At(Window) /\ \E d \in U16Data : WriteU16(d)
    \/ At(Window) /\ \E d \in I16Data : WriteI16(d)
    \/ At(Window) /\ WriteBytes32(Block32)
    \/ At(Window) /\ \E d \in SmallSlices \cup HugeSlices : \E oc \in BOOLEAN : WriteSlice(d, oc)
    \/ At(Window) /\ \E r \in RegSet : \E v \in Numbers : WriteValue(r, v)

Spec == Init /\ [][Next]_vars

\* the machine: the registers' construction, and a reader that fetches bytes
\* of the code and jumps
MachineNext ==
    \/ DefaultCall
    \/ StackOverflow
    \/ \E st0 \in St0Data : \E cy0 \in Cy0Data : RegistersLiteral(st0, cy0)
    \/ Execute
    \/ \E to \in Window : Seek(to)
    \/ At(Window) /\ IsEnd
    \/ At(Window) /\ PeekU8
    \/ At(Window) /\ ReadU8

MachineSpec == Init /\ [][MachineNext]_vars

\* the offsets the bit fields are written and read back at
BitWindow == {0, U16MAX}

\* a bit field written and read back: the writer moves to a bit offset with
\* fields of zeros, writes the field under test, and a reader of the same
\* buffer moves to where the field starts and reads it
BitNext ==
    \/ \E to \in BitWindow : Seek(to)
    \/ At(BitWindow) /\ \E n \in Widths : WriteUN(n, 0, FALSE)
    \/ At(BitWindow) /\ \E n \in Widths : \E d \in BitData(n) : WriteUN(n, d, TRUE)
    \/ Reopen
    \/ At(BitWindow) /\ \E n \in Widths : ReadUN(n)

BitSpec == Init /\ [][BitNext]_vars

\* a byte-aligned value written and read back
RoundTripNext ==
    \/ \E to \in Window : Seek(to)
    \/ At(Window) /\ \E d \in U16Data : WriteU16(d)
    \/ At(Window) /\ \E d \in I16Data : WriteI16(d)
    \/ At(Window) /\ WriteBytes32(Block32)
    \/ At(Window) /\ \E d \in SmallSlices : \E oc \in BOOLEAN : WriteSlice(d, oc)
    \/ Reopen
    \/ At(Window) /\ ReadU16
    \/ At(Window) /\ ReadI16
    \/ At(Window) /\ ReadBytes32
    \/ At(Window) /\ \E oc \in BOOLEAN : ReadSlice(oc)

RoundTripSpec == Init /\ [][RoundTripNext]_vars

\* the opcode bytes: every category with every sub-opcode of three bits, and
\* the byte of the code a reader is at
OpcodeNext ==
    \/ \E cat \in Categories : \E sub \in 0..7 : Encode(cat, sub)
    \/ \E to \in Window : Seek(to)
    \/ At(Window) /\ PeekU8

OpcodeSpec == Init /\ [][OpcodeNext]_vars

\* slices and their prefixes: a writer writes a slice, or a u16 that a
\* reader of the same buffer takes for a slice's prefix
SliceNext ==
    \/ \E to \in Window : Seek(to)
    \/ At(Window) /\ \E d \in U16Data : WriteU16(d)
    \/ At(Window) /\ \E d \in SmallSlices \cup LongSlices : \E oc \in BOOLEAN : WriteSlice(d, oc)
    \/ Reopen
    \/ At(Window) /\ \E oc \in BOOLEAN : ReadSlice(oc)

SliceSpec == Init /\ [][SliceNext]_vars

\* a register value written and read back
ValueNext ==
    \/ \E to \in Window : Seek(to)
    \/ At(Window) /\ \E r \in RegSet : \E v \in Numbers : WriteValue(r, v)
    \/ Reopen
    \/ At(Window) /\ \E r \in RegSet : ReadValue(r)

ValueSpec == Init /\ [][ValueNext]_vars

----------------------------------------------------------------------------
(* What the claims speak of *)

IsOk(res) == res.kind = "Ok"
IsEof(res) == res.kind = "Eof"
IsOutOfBoundaries(res, n) == res.kind = "OutOfBoundaries" /\ res.val = n
IsAbort(res) == res.kind = "Abort"

BitReads == {"read_bool", "read_uN"}
AlignedReads == {"read_u8", "read_u16", "read_i16", "read_bytes32", "read_slice", "read_value"}
BitWrites == {"write_bool", "write_uN"}
AlignedWrites == {"write_u8", "write_u16", "write_i16", "write_bytes32", "write_slice",
                  "write_value"}
ReadOps == BitReads \cup AlignedReads \cup {"peek_u8"}
WriteOps == BitWrites \cup AlignedWrites

\* the step is a call of a method in `ops`
Calls(ops) == Live /\ last'.op \in ops

\* the step is a reader's call of `op` where the write under test, a call of
\* `wop`, started, neither cursor past the end
ReadsBack(wop, op) ==
    /\ Calls({op})
    /\ wrote.op = wop
    /\ byte_pos = wrote.byte_pos
    /\ bit_pos = wrote.bit_pos
    /\ ~eof
    /\ ~wrote.eof

----------------------------------------------------------------------------
(* C1: a bit field of width w in 1..7 with value v in [0, 2^w), written at   *)
(* any (byte, bit) position and read back from there with the w-bit read,   *)
(* comes back as v, and the reader ends at the position the writer ended    *)
(* at.  Stated for a field written over a zero byte inside the buffer.      *)
C1_BitFieldRoundTrip ==
    [][(/\ ReadsBack("write_uN", "read_uN")
        /\ last'.arg = wrote.arg[1]
        /\ wrote.old = 0
        /\ byte_pos < bytecode.len)
       => (/\ IsOk(last'.res)
           /\ last'.res.val = wrote.arg[2]
           /\ byte_pos' = wrote.end_byte
           /\ bit_pos' = wrote.end_bit)]_vars

----------------------------------------------------------------------------
\* the bytes the write under test and its read-back cover
Size(wop) == CASE wop \in {"write_u16", "write_i16"} -> 2 [] wop = "write_bytes32" -> 32

ReadOf(wop) == CASE wop = "write_u16" -> "read_u16"
                 [] wop = "write_i16" -> "read_i16"
                 [] wop = "write_bytes32" -> "read_bytes32"

\* the read-back succeeded with the value written, which lies in the buffer
\* least significant byte first
CameBack(wop) ==
    /\ IsOk(wrote.res)
    /\ IsOk(last'.res)
    /\ last'.res.val = wrote.arg
    /\ wop \in {"write_u16", "write_i16"} =>
          /\ Get(bytecode, byte_pos) = wrote.arg % 256
          /\ Get(bytecode, byte_pos + 1) = (wrote.arg % 65536) \div 256

(* C2, as claimed: a u16, an i16 or a 32-byte block written at a            *)
(* byte-aligned position where its bytes lie inside the buffer is read back *)
(* from there by the matching read, both calls succeeding, the 16-bit       *)
(* values stored least significant byte first.                              *)
C2_AlignedRoundTripAnywhere ==
    [][\A wop \in {"write_u16", "write_i16", "write_bytes32"} :
          (/\ ReadsBack(wop, ReadOf(wop))
           /\ bit_pos = 0
           /\ byte_pos + Size(wop) <= bytecode.len)
          => CameBack(wop)]_vars

(* C2, amended: the same where the value also ends at or before byte offset *)
(* 65535, that is at p + 2 <= 65535 for the 16-bit values and at            *)
(* p + 32 <= 65535 for the block.                                           *)
C2_AlignedRoundTrip ==
    [][\A wop \in {"write_u16", "write_i16", "write_bytes32"} :
          (/\ ReadsBack(wop, ReadOf(wop))
           /\ bit_pos = 0
           /\ byte_pos + Size(wop) <= bytecode.len
           /\ byte_pos + Size(wop) <= U16MAX)
          => CameBack(wop)]_vars

\* an i16 below zero has been written and read back
C2_Witness ==
    /\ mode = "r"
    /\ last.op = "read_i16"
    /\ wrote.op = "write_i16"
    /\ byte_pos = wrote.end_byte
    /\ wrote.end_byte = wrote.byte_pos + 2
    /\ IsOk(last.res)
    /\ last.res.val = wrote.arg
    /\ wrote.arg < 0

----------------------------------------------------------------------------
(* C3: a slice of L <= 65534 bytes written by write_slice at a byte-aligned *)
(* position (the prefix and the bytes inside the buffer) is read back from  *)
(* there by read_slice: both calls succeed and the read returns the L bytes.*)
C3_SliceRoundTrip ==
    [][(/\ ReadsBack("write_slice", "read_slice")
        /\ bit_pos = 0
        /\ wrote.arg.len <= U16MAX - 1
        /\ byte_pos + 2 + wrote.arg.len <= bytecode.len)
       => (/\ IsOk(wrote.res)
           /\ IsOk(last'.res)
           /\ last'.res.val = wrote.arg.data)]_vars

----------------------------------------------------------------------------
(* C4: a write_slice or read_slice of L bytes that starts at byte offset p  *)
(* and succeeds leaves the cursor at byte offset p + 2 + L.                 *)
C4_SliceAdvance ==
    [][/\ (Calls({"write_slice"}) /\ IsOk(last'.res))
          => byte_pos' = byte_pos + 2 + last'.arg.len
       /\ (Calls({"read_slice"}) /\ IsOk(last'.res))
          => byte_pos' = byte_pos + 2 + Len(last'.res.val)]_vars

----------------------------------------------------------------------------
\* the cursor is where it was
CursorStays == byte_pos' = byte_pos /\ bit_pos' = bit_pos /\ eof' = eof

\* the step is write_slice with a slice of 65535 bytes or more
HugeSlice == Calls({"write_slice"}) /\ last'.arg.len >= U16MAX

(* C5: write_slice with a slice of 65535 bytes or more returns              *)
(* OutOfBoundaries (carrying the length) and leaves the buffer and the      *)
(* cursor as they were, in every cursor state.                              *)
C5_HugeSliceRefused ==
    [][HugeSlice
       => (/\ IsOutOfBoundaries(last'.res, last'.arg.len)
           /\ bytecode' = bytecode
           /\ CursorStays)]_vars

\* a slice of 65535 bytes has been refused at offset 0 of a buffer that holds
\* a slice there, which is still there
C5_Witness ==
    /\ last.op = "write_slice"
    /\ last.arg.len = U16MAX
    /\ IsOutOfBoundaries(last.res, U16MAX)
    /\ byte_pos = 0
    /\ Slice(bytecode, 0, 4) = <<2, 0, 7, 9>>

----------------------------------------------------------------------------
\* the step is a call that advances the cursor by one byte from where it is
\* (the byte it accesses being inside the buffer)
SingleByteAdvance ==
    /\ ~eof
    /\ byte_pos < bytecode.len
    /\ \/ Calls({"read_u8", "write_u8"}) /\ bit_pos = 0
       \/ Calls({"read_value"}) /\ bit_pos = 0 /\ last'.arg = "A8"
       \/ Calls({"write_value"}) /\ bit_pos = 0 /\ last'.arg[1] = "A8"
       \/ Calls({"read_bool", "write_bool"}) /\ bit_pos = 7
       \/ Calls({"read_uN"}) /\ bit_pos + last'.arg >= 8
       \/ Calls({"write_uN"}) /\ bit_pos + last'.arg[1] >= 8

\* a single-byte advance at offset 65535 succeeds and sets the flag, the byte
\* offset staying at 65535
SetsEof ==
    (SingleByteAdvance /\ byte_pos = U16MAX)
    => (IsOk(last'.res) /\ eof' /\ byte_pos' = U16MAX)

(* C6: a single-byte advance at byte offset 65535 succeeds and  *)
(* sets the end-of-buffer flag, and every read or write called with the     *)
(* flag set fails with Eof.                                                 *)
C6_EofFailsEverything ==
    [][/\ SetsEof
       /\ (eof /\ Calls(ReadOps \cup WriteOps)) => IsEof(last'.res)]_vars

----------------------------------------------------------------------------
\* the bytes a fixed-size aligned method advances by
Advance(op, arg) ==
    CASE op \in {"read_u16", "read_i16", "write_u16", "write_i16"} -> 2
      [] op \in {"read_bytes32", "write_bytes32"} -> 32
      [] op = "read_value" -> bits(arg) \div 8
      [] op = "write_value" -> bits(arg[1]) \div 8

FixedSize == {"read_u16", "read_i16", "write_u16", "write_i16",
              "read_bytes32", "write_bytes32", "read_value", "write_value"}

\* the bytes the fixed-size method of the step advances by
FixedLen == Advance(last'.op, last'.arg)

\* the step is a call of a fixed-size method that gets to its advance, which
\* is one of more than one byte to beyond offset 65535
AdvanceBeyond ==
    /\ Calls(FixedSize)
    /\ ~eof
    /\ bit_pos = 0
    /\ ~IsAbort(last'.res)
    /\ FixedLen > 1
    /\ byte_pos + FixedLen > U16MAX

\* the length L of the slice of the step: what write_slice is given, the
\* prefix read_slice reads
SliceLen ==
    IF last'.op = "write_slice" THEN last'.arg.len
    ELSE U16FromLe(Slice(bytecode, byte_pos, 2))

\* the step is a slice method of a slice of L bytes, 2 + L within 16 bits,
\* whose prefix has been passed and whose second advance, by 2 + L bytes, is
\* to beyond offset 65535
SliceAdvanceBeyond ==
    /\ Calls({"read_slice", "write_slice"})
    /\ ~eof
    /\ bit_pos = 0
    /\ ~IsAbort(last'.res)
    /\ byte_pos + 2 <= U16MAX
    /\ 2 + SliceLen <= U16MAX
    /\ byte_pos + 2 + (2 + SliceLen) > U16MAX

(* C7: an advance by n > 1 bytes from byte offset p with p + n > 65535      *)
(* fails with OutOfBoundaries carrying p + n, leaves the byte offset at p   *)
(* and does not set the end-of-buffer flag.  The advances are those of the  *)
(* fixed-size methods (n = 2, 32 or the register's bytes) and the second    *)
(* advance of the slice methods (n = 2 + L, from p + 2).                    *)
C7_AdvanceBeyondFails ==
    [][/\ AdvanceBeyond
          => (/\ IsOutOfBoundaries(last'.res, byte_pos + FixedLen)
              /\ ~eof'
              /\ byte_pos' = byte_pos)
       /\ SliceAdvanceBeyond
          => (/\ IsOutOfBoundaries(last'.res, byte_pos + 2 + (2 + SliceLen))
              /\ ~eof'
              /\ byte_pos' = byte_pos + 2)]_vars

\* a 32-byte block written at offset 65504 of a full buffer, whose advance is
\* to 65536
C7_Witness ==
    /\ last.op = "write_bytes32"
    /\ wrote.byte_pos = U16MAX - 31
    /\ byte_pos = U16MAX - 31
    /\ bytecode.len = FullLen
    /\ IsOutOfBoundaries(last.res, U16MAX + 1)
    /\ ~eof

----------------------------------------------------------------------------
\* the step is a byte-aligned access called at a bit offset other than 0
Misaligned == Calls(AlignedReads \cup AlignedWrites) /\ bit_pos # 0

(* C8, as claimed: every byte-aligned access called with the bit offset not *)
(* 0 aborts, whatever the cursor's state.                                   *)
C8_MisalignedAlwaysAborts ==
    [][Misaligned => IsAbort(last'.res)]_vars

(* C8, amended: a byte-aligned access called with the bit offset not 0      *)
(* aborts, except that write_slice with 65535 bytes or more returns         *)
(* OutOfBoundaries and that, with the end-of-buffer flag set, a read        *)
(* returns Eof; a write aborts with the flag set as well.  The exceptions   *)
(* leave the cursor and the buffer as they were.                            *)
C8_MisalignedAborts ==
    [][Misaligned
       => (/\ (HugeSlice
               \/ (eof /\ last'.op \in AlignedReads))
              => (CursorStays /\ bytecode' = bytecode)
           /\ HugeSlice => IsOutOfBoundaries(last'.res, last'.arg.len)
           /\ (eof /\ last'.op \in AlignedReads) => IsEof(last'.res)
           /\ (~HugeSlice /\ (eof => last'.op \in AlignedWrites))
              => IsAbort(last'.res))]_vars

\* a u16 was read at a bit offset other than 0, the flag not set, and the
\* alignment assertion ended the process
C8_Witness ==
    /\ last.op = "read_u16"
    /\ bit_pos # 0
    /\ ~eof
    /\ last.res = Abort("misaligned")

----------------------------------------------------------------------------
(* C9: Registers::default() terminates: the calls it makes never exhaust    *)
(* the stack.  (A build that reuses the frame for the call never returns    *)
(* either: the behaviour that stays in DefaultCall's state for ever.)       *)
C9_DefaultTerminates == reg.pc # "overflow"

----------------------------------------------------------------------------
(* C10: write_value aborts on its length assertion exactly when the value's *)
(* byte length exceeds the register's byte length.                          *)
C10_AbortsWhenLonger ==
    last.op = "write_value"
    => ((IsAbort(last.res) /\ last.res.val = "assert")
        <=> NumLen(last.arg[2]) > bits(last.arg[1]) \div 8)

----------------------------------------------------------------------------
\* the step is execute called on code whose first opcode is one of `ops` of
\* the control-flow category
Executes(ops) ==
    /\ reg.pc = "built"
    /\ reg'.pc = "executed"
    /\ 0 < bytecode.len
    /\ \E op \in ops : Get(bytecode, 0) = Opcode("ControlFlow", ControlFlowOp[op])

(* C11: a control-transfer opcode increments cy0: execute of code that      *)
(* starts with Jmp or Jif, called with cy0 below its 16-bit bound, returns  *)
(* with cy0 greater than it was.                                            *)
C11_TransferCounted ==
    [][(Executes({"Jmp", "Jif"}) /\ reg.cy0 < U16MAX)
       => reg'.cy0 > reg.cy0]_vars

----------------------------------------------------------------------------
\* execute has returned from code whose first opcode is `op` of the
\* control-flow category
Executed(op) ==
    /\ reg.pc = "executed"
    /\ 0 < bytecode.len
    /\ Get(bytecode, 0) = Opcode("ControlFlow", ControlFlowOp[op])

(* C12: execution of code that starts with Fail ends with st0 = false, and  *)
(* of code that starts with Succ with st0 = true.                           *)
C12_HaltWritesSt0 ==
    /\ Executed("Fail") => ~reg.st0
    /\ Executed("Succ") => reg.st0

----------------------------------------------------------------------------
\* the width of the bit field of the step
BitWidth ==
    CASE last'.op \in {"read_bool", "write_bool"} -> 1
      [] last'.op = "read_uN" -> last'.arg
      [] last'.op = "write_uN" -> last'.arg[1]

\* the step is a bit-field read or write that succeeds
BitFieldDone == Calls(BitReads \cup BitWrites) /\ IsOk(last'.res)

(* C13, as claimed: a successful bit-field read or write of width w at      *)
(* (byte p, bit b) leaves the cursor at byte p + (b + w) div 8 and bit      *)
(* (b + w) mod 8.                                                           *)
C13_BitAdvanceAnywhere ==
    [][BitFieldDone
       => (/\ byte_pos' = byte_pos + (bit_pos + BitWidth) \div 8
           /\ bit_pos' = (bit_pos + BitWidth) % 8)]_vars

(* C13, amended: the same where p < 65535 or b + w < 8, the end-of-buffer   *)
(* flag staying unset; at p = 65535 with b + w >= 8 the call succeeds too,  *)
(* the byte offset stays 65535, the bit offset becomes (b + w) mod 8 and    *)
(* the end-of-buffer flag is set.                                           *)
C13_BitAdvance ==
    [][BitFieldDone
       => (/\ bit_pos' = (bit_pos + BitWidth) % 8
           /\ IF byte_pos = U16MAX /\ bit_pos + BitWidth >= 8
              THEN byte_pos' = U16MAX /\ eof'
              ELSE byte_pos' = byte_pos + (bit_pos + BitWidth) \div 8 /\ ~eof')]_vars

\* a field written below offset 65535 has carried into the byte offset
C13_Witness ==
    /\ wrote.op = "write_uN"
    /\ IsOk(wrote.res)
    /\ wrote.byte_pos < U16MAX
    /\ wrote.bit_pos + wrote.arg[1] > 8
    /\ byte_pos = wrote.byte_pos + 1
    /\ bit_pos = (wrote.bit_pos + wrote.arg[1]) % 8
    /\ ~eof

----------------------------------------------------------------------------
\* bits b .. b + w - 1 of the byte B, as a number
Field(B, b, w) == (B \div Pow2(b)) % Pow2(w)

\* the value of the bit field the step writes
BitValue ==
    IF last'.op = "write_bool" THEN (IF last'.arg THEN 1 ELSE 0) ELSE last'.arg[2]

\* the step is a bit-field write that succeeds, the field inside the byte
BitWriteDone ==
    /\ Calls(BitWrites)
    /\ IsOk(last'.res)
    /\ bit_pos + BitWidth <= 8

\* the step leaves the bits of the buffer outside the field as they were:
\* the other bytes, and the bits of byte p below and above the field
OtherBitsStay ==
    /\ Put(bytecode', byte_pos, 0) = Put(bytecode, byte_pos, 0)
    /\ Get(bytecode', byte_pos) % Pow2(bit_pos) = Get(bytecode, byte_pos) % Pow2(bit_pos)
    /\ Get(bytecode', byte_pos) \div Pow2(bit_pos + BitWidth)
         = Get(bytecode, byte_pos) \div Pow2(bit_pos + BitWidth)

(* C14: after a bit-field write of v with width w at (byte p, bit b), the   *)
(* field inside the byte, bits b .. b + w - 1 of byte p are v whatever the  *)
(* byte held, and every other bit of the buffer is as it was.               *)
C14_BitWriteDeposits ==
    [][BitWriteDone
       => (/\ Field(Get(bytecode', byte_pos), bit_pos, BitWidth) = BitValue
           /\ OtherBitsStay)]_vars

----------------------------------------------------------------------------
\* the step is a bit-field read that succeeds, the field inside the byte
BitReadDone ==
    /\ Calls(BitReads)
    /\ IsOk(last'.res)
    /\ bit_pos + BitWidth <= 8

(* C15: a bit-field read of width w at bit offset b of a byte B, with       *)
(* b + w <= 8, returns (B div 2^b) mod 2^w (read_bool: whether that is 1):  *)
(* the fields are packed from the least significant bit up.                 *)
C15_LsbFirst ==
    [][BitReadDone
       => LET field == Field(Get(bytecode, byte_pos), bit_pos, BitWidth)
          IN  last'.res.val = IF last'.op = "read_bool" THEN field = 1 ELSE field]_vars

\* bit 1 of a byte that holds 0b0000_0010 has been read as 1
C15_Witness ==
    /\ last.op = "read_uN"
    /\ last.arg = 1
    /\ last.res = Ok(1)
    /\ byte_pos = 0
    /\ bit_pos = 2
    /\ Get(bytecode, 0) = 2

----------------------------------------------------------------------------
\* the bytes of the operand the read of the step is to read, from the byte
\* offset on (a slice: its prefix, and its L bytes where the prefix is
\* inside the buffer)
Operand ==
    CASE last'.op \in BitReads \cup {"peek_u8", "read_u8"} -> 1
      [] last'.op \in FixedSize -> FixedLen
      [] last'.op = "read_slice" ->
            IF byte_pos + 2 <= bytecode.len THEN 2 + SliceLen ELSE 2

\* the step is a read, at a bit offset the method allows, of an operand that
\* the end of the buffer truncates
TruncatedRead ==
    /\ Calls(ReadOps)
    /\ last'.op \in AlignedReads => bit_pos = 0
    /\ byte_pos + Operand > bytecode.len

(* C16: a read whose operand extends to or past the end of the buffer       *)
(* returns a cursor error (Eof or OutOfBoundaries): it does not abort on an *)
(* index at or beyond the buffer's length.                                  *)
C16_TruncatedReadFails ==
    [][TruncatedRead => last'.res.kind \in {"Eof", "OutOfBoundaries"}]_vars

----------------------------------------------------------------------------
\* the step is a call of `op` at bit offset 0, the flag not set, the W/8
\* bytes of its register inside the buffer and ending at or before offset
\* 65535
ValueCall(op) ==
    /\ Calls({op})
    /\ bit_pos = 0
    /\ ~eof
    /\ byte_pos + FixedLen <= bytecode.len
    /\ byte_pos + FixedLen <= U16MAX

(* C17: read_value and write_value for a register of W bits succeed,        *)
(* advance the cursor by W/8 bytes and read, respectively set, the W/8      *)
(* bytes from the byte offset on (the value's bytes reshaped to W/8) and    *)
(* change no other byte; a read_value where the write_value started returns *)
(* the bytes of the value reshaped.                                         *)
C17_ValueWidth ==
    [][/\ ValueCall("write_value")
          => (/\ IsOk(last'.res)
              /\ byte_pos' = byte_pos + FixedLen
              /\ bytecode' = CopyFromSlice(bytecode, byte_pos,
                                           reshape(last'.arg[2], FixedLen).bytes))
       /\ ValueCall("read_value")
          => (/\ IsOk(last'.res)
              /\ byte_pos' = byte_pos + FixedLen
              /\ bytecode' = bytecode
              /\ last'.res.val.bytes = Slice(bytecode, byte_pos, FixedLen))
       /\ (ValueCall("read_value") /\ ReadsBack("write_value", "read_value")
             /\ wrote.arg[1] = last'.arg)
          => last'.res.val.bytes = reshape(wrote.arg[2], FixedLen).bytes]_vars

----------------------------------------------------------------------------
\* the opcode byte formed last belongs to no other pair of a category and a
\* sub-opcode, the sub-opcodes of a category being those of `subs`
DecodesOnce(subs(_)) ==
    \A cat \in Categories : \A sub \in subs(cat) :
        Opcode(cat, sub) = last.res.val => <<cat, sub>> = last.arg

\* the sub-opcodes a category is given are pairwise distinct
Distinct(ops) == \A a, b \in DOMAIN ops : a # b => ops[a] # ops[b]

ThreeBits(cat) == 0..7

(* C18, as claimed: the categories' tags leave the low three bits of the    *)
(* opcode byte to the sub-opcode: a byte formed as tag | sub-opcode, the    *)
(* sub-opcode in 0..7, is formed by no other category and sub-opcode; the   *)
(* sub-opcodes given within a category are pairwise distinct.               *)
C18_TagsLeaveThreeBits ==
    /\ last.op = "opcode" => DecodesOnce(ThreeBits)
    /\ Distinct(ControlFlowOp)
    /\ Distinct(CmpOp)

\* the sub-opcodes of a category: two bits for Secp256k1 and Ed25519, whose
\* tags differ in bit 2, three for the others
SubOpcodes(cat) == IF cat \in {"Secp256k1", "Ed25519"} THEN 0..3 ELSE 0..7

(* C18, amended: the tags are pairwise distinct; those of the six           *)
(* categories other than Secp256k1 and Ed25519 leave the low three bits to  *)
(* the sub-opcode, while the tag of Ed25519 is that of Secp256k1 with bit 2 *)
(* set, which leaves two bits to the sub-opcodes of each of the two.  A     *)
(* byte formed as tag | sub-opcode within these ranges is formed by no      *)
(* other category and sub-opcode, and the sub-opcodes given within a        *)
(* category are pairwise distinct.                                          *)
C18_TagsDecodeOnce ==
    /\ (last.op = "opcode" /\ last.arg[2] \in SubOpcodes(last.arg[1]))
       => DecodesOnce(SubOpcodes)
    /\ Distinct(Instruction)
    /\ \A cat \in Categories \ {"Ed25519"} : Instruction[cat] % 8 = 0
    /\ Instruction["Ed25519"] = Instruction["Secp256k1"] + 4
    /\ Distinct(ControlFlowOp)
    /\ Distinct(CmpOp)

\* the opcode byte of the last of Ed25519's sub-opcodes has been formed
C18_Witness ==
    /\ last.op = "opcode"
    /\ last.arg = <<"Ed25519", 3>>
    /\ last.res = Ok(79)

----------------------------------------------------------------------------
\* the bit field of the step reaches beyond bit 7 of the byte
Spills == bit_pos + BitWidth > 8

\* the step is a successful bit-field read or write that touches no byte but
\* the one at the byte offset and, where the field reaches beyond bit 7,
\* reads the 8 - b bits the byte has from bit b up, respectively ORs into
\* the byte what of v << b fits in it
OneByteOnly ==
    /\ Put(bytecode', byte_pos, 0) = Put(bytecode, byte_pos, 0)
    /\ last'.op \in BitReads => bytecode' = bytecode
    /\ (Spills /\ last'.op = "read_uN")
       => last'.res.val = Get(bytecode, byte_pos) \div Pow2(bit_pos)
    /\ (Spills /\ last'.op = "write_uN")
       => Get(bytecode', byte_pos)
            = BitOr(Get(bytecode, byte_pos), (BitValue * Pow2(bit_pos)) % 256)

(* C19, as claimed: a successful bit-field read or write touches only the   *)
(* byte at the byte offset; where bit offset + width exceeds 8 the read     *)
(* returns the 8 - b bits of that byte, the write drops the rest, and the   *)
(* cursor advances by the full width, to the next byte.                     *)
C19_OneByteFullAdvance ==
    [][BitFieldDone
       => (/\ OneByteOnly
           /\ Spills => (byte_pos' = byte_pos + 1
                          /\ bit_pos' = (bit_pos + BitWidth) % 8))]_vars

(* C19, amended: the same, except that at byte offset 65535 the advance to  *)
(* the next byte is the end-of-buffer flag being set, the byte offset       *)
(* staying 65535.                                                           *)
C19_OneByteOnly ==
    [][BitFieldDone
       => (/\ OneByteOnly
           /\ Spills => (/\ bit_pos' = (bit_pos + BitWidth) % 8
                          /\ IF byte_pos = U16MAX
                             THEN byte_pos' = U16MAX /\ eof'
                             ELSE byte_pos' = byte_pos + 1 /\ ~eof'))]_vars

\* the field 127 of 7 bits written at bit 2 of a byte that held 7: its low 6
\* bits are in the byte, the next byte holds 9 as before, the cursor is at
\* bit 1 of it
C19_Witness ==
    /\ wrote.op = "write_uN"
    /\ wrote.arg = <<7, 127>>
    /\ wrote.bit_pos = 2
    /\ wrote.old = 7
    /\ wrote.byte_pos = 2
    /\ IsOk(wrote.res)
    /\ Slice(bytecode, 2, 2) = <<255, 9>>
    /\ byte_pos = 3
    /\ bit_pos = 1

----------------------------------------------------------------------------
(* C20: seek(offset) sets the byte offset to offset and leaves the bit      *)
(* offset, the end-of-buffer flag and the buffer as they were; no call on   *)
(* the cursor, a seek included, resets a flag that is set.                  *)
C20_SeekKeepsFlag ==
    [][/\ Calls({"seek"})
          => (/\ byte_pos' = last'.arg
              /\ bit_pos' = bit_pos
              /\ eof' = eof
              /\ bytecode' = bytecode)
       /\ eof => eof']_vars

\* a cursor whose flag was set at offset 65535, between two bytes, has been
\* moved to offset 0
C20_Witness ==
    /\ last.op = "seek"
    /\ last.arg = 0
    /\ byte_pos = 0
    /\ bit_pos # 0
    /\ eof

----------------------------------------------------------------------------
\* the step is a write that returns an error
WriteFails ==
    /\ Calls(WriteOps)
    /\ last'.res.kind \in {"Eof", "OutOfBoundaries"}

(* C21: a write that returns Eof or OutOfBoundaries leaves the buffer as it *)
(* was.                                                                     *)
C21_FailedWriteKeepsBuffer ==
    [][WriteFails => bytecode' = bytecode]_vars

----------------------------------------------------------------------------
\* the step is a slice method that gets to its sum 2u16 + len as u16: called
\* at bit offset 0 with the flag not set, the slice not refused, the prefix
\* passed and, in write_slice, the slice's bytes copied
SumComputed ==
    /\ Calls({"read_slice", "write_slice"})
    /\ ~eof
    /\ bit_pos = 0
    /\ byte_pos + 2 <= U16MAX
    /\ byte_pos + 2 <= bytecode.len
    /\ last'.op = "write_slice"
       => (SliceLen < U16MAX /\ byte_pos + 2 + SliceLen <= bytecode.len)

(* C22: the sum 2 + L that a slice method computes in 16 bits, for a length *)
(* L that write_slice accepts or a prefix L that read_slice reads, is at    *)
(* most 65535: the call does not abort on an overflow, and where it         *)
(* succeeds the cursor has advanced by the 2 + L bytes of the sum, unwrapped.*)
C22_SumWithin16Bits ==
    [][SumComputed
       => (/\ 2 + SliceLen <= U16MAX
           /\ ~(IsAbort(last'.res) /\ last'.res.val = "overflow")
           /\ IsOk(last'.res) => byte_pos' = (byte_pos + 2) + (2 + SliceLen))]_vars

====
